---- MODULE Spec2Model ----
(***************************************************************************)
(* A model of divine2rathena: the batch driver (main.py), the monster      *)
(* document store (utils/yaml_helper.py), the file helpers                 *)
(* (utils/file_helper.py), the fetch service (services/monster.py) and the *)
(* record assembler (main.py, utils/utils.py, utils/mapper.py).            *)
(*                                                                         *)
(* Two specifications share the variables:                                 *)
(*   SpecStore  any sequence of document-store calls on any document       *)
(*   Spec       one batch run of main()                                    *)
(*   SpecLib    the library functions applied to bounded inputs            *)
(*   SpecFresh  init_export_yaml followed by upsert_monster calls          *)
(*   SpecCatalog  item lookups of one process over files that can change   *)
(***************************************************************************)
EXTENDS Integers, Sequences, FiniteSets, TLC

(***************************************************************************)
(* Bounds of the model.                                                    *)
(***************************************************************************)
\* monster identifiers used by the document-store specification: 1..MaxMobId
MaxMobId == 3
\* pieces of the comma-separated identifier list given to main()
MaxArgs == 2
\* entries in the spawn list and in the skill list of a source record
MaxSpawn == 1
MaxSkill == 1

(***************************************************************************)
(* Python / JSON / YAML values.  A value carries its type tag, so that the *)
(* code's type-dependent behaviour (truthiness, int(), .get on a non-dict) *)
(* can be computed.  Absent is the result of looking up a missing key.     *)
(***************************************************************************)
Absent == [t |-> "absent"]
None == [t |-> "null"]
JInt(n) == [t |-> "int", v |-> n]
JStr(s) == [t |-> "str", v |-> s]
JBool(b) == [t |-> "bool", v |-> b]
JList(s) == [t |-> "list", v |-> s]
JDict(f) == [t |-> "dict", v |-> f]
\* the empty dict {}: a function with no keys
EmptyDict == JDict(<<>>)

\* Python truthiness (bool(v), `if v`, `v or d`)
Truthy(v) ==
    CASE v.t = "int" -> v.v # 0
      [] v.t = "str" -> v.v # ""
      [] v.t = "bool" -> v.v
      [] v.t = "list" -> Len(v.v) > 0
      [] v.t = "dict" -> DOMAIN v.v # {}
      [] OTHER -> FALSE

\* the outcome of a call: a returned value or a raised exception
Return(v) == [exc |-> "none", val |-> v]
Raise(e) == [exc |-> e, val |-> None]

\* dict.setdefault(key, val) on the key -> value function of a dict
setdefault(d, key, val) == IF key \in DOMAIN d THEN d ELSE d @@ (key :> val)

(***************************************************************************)
(* Python built-ins on the values above.  Strings are drawn from the small *)
(* vocabulary below; the string functions are tabulated on it.             *)
(***************************************************************************)
\* the decimal literals int() accepts among the model's strings
IntLiterals ==
    ("0" :> 0) @@ ("1" :> 1) @@ ("2" :> 2) @@ ("3" :> 3) @@ ("04" :> 4) @@
    ("21" :> 21) @@ ("26" :> 26) @@ ("1002" :> 1002) @@ ("501" :> 501) @@
    ("-3" :> -3) @@ ("19" :> 19)

\* str.strip()
strip(s) == CASE s = " " -> "" [] s = " 2" -> "2" [] s = " abbey01 " -> "abbey01"
              [] OTHER -> s

\* int(v): TypeError on None and containers, ValueError on a non-numeric string
py_int(v) ==
    CASE v.t = "int" -> Return(v.v)
      [] v.t = "bool" -> Return(IF v.v THEN 1 ELSE 0)
      [] v.t = "str" -> IF strip(v.v) \in DOMAIN IntLiterals
                        THEN Return(IntLiterals[strip(v.v)])
                        ELSE Raise("ValueError")
      [] OTHER -> Raise("TypeError")

\* v % n and v // n for n > 0: numbers only; a str is taken as a format string
\* with nothing to format, a TypeError, like None and the containers
py_mod(v, n) ==
    CASE v.t = "int" -> Return(v.v % n)
      [] v.t = "bool" -> Return((IF v.v THEN 1 ELSE 0) % n)
      [] OTHER -> Raise("TypeError")

py_floordiv(v, n) ==
    CASE v.t = "int" -> Return(v.v \div n)
      [] v.t = "bool" -> Return((IF v.v THEN 1 ELSE 0) \div n)
      [] OTHER -> Raise("TypeError")

\* d.get(key) and d.get(key, default) on the key -> value function of a dict
py_get(d, key) == IF key \in DOMAIN d THEN d[key] ELSE None
py_get_default(d, key, default) == IF key \in DOMAIN d THEN d[key] ELSE default

\* a dict from a record of fields, the Absent ones left out
DictOf(f) == JDict([key \in {x \in DOMAIN f : f[x] # Absent} |-> f[key]])

Abs(n) == IF n < 0 THEN -n ELSE n

(***************************************************************************)
(* utils/utils.py                                                          *)
(***************************************************************************)
\* "_".join-free tabulation of normalize_dbname on the model's names
normalize_dbname(name) ==
    IF ~Truthy(name) THEN Return("")
    ELSE IF name.t # "str" THEN Raise("AttributeError")
    ELSE Return(CASE strip(name.v) = "HOLY_FRUS" -> "Holy Frus"
                  [] strip(name.v) = "scorpion" -> "Scorpion"
                  [] OTHER -> strip(name.v))

\* a different positive: int(value) with its sign
positive_signed(value) ==
    LET r == py_int(value)
    IN  IF r.exc = "none" THEN r.val ELSE 0

\* positive(value): |int(value)|, 0 on TypeError or ValueError
positive(value) ==
    LET r == py_int(value)
    IN  IF r.exc = "none" THEN Abs(r.val) ELSE 0

\* _safe_int(value, default)
safe_int(value, default) ==
    LET r == py_int(value)
    IN  IF r.exc = "none" THEN r.val ELSE default

\* _safe_str(value)
safe_str(value) ==
    CASE value.t = "null" -> ""
      [] value.t = "str" -> strip(value.v)
      [] OTHER -> "?"

HardDefault == 350

\* value_fallback(value, fallback)
value_fallback(value, fallback) ==
    LET primary == positive(value)
        secondary == positive(fallback)
    IN  IF primary > 0 THEN primary
        ELSE IF secondary > 0 THEN secondary
        ELSE HardDefault

(***************************************************************************)
(* utils/mapper.py                                                         *)
(***************************************************************************)
\* a different lookup: a negative code counts from the end, as names[code] does
TableLookup_wraps(names, code, default) ==
    IF 0 <= code /\ code < Len(names) THEN names[code + 1]
    ELSE IF -Len(names) <= code /\ code < 0 THEN names[Len(names) + code + 1]
    ELSE default

\* names[code] for 0 <= code < len(names), else the default
TableLookup(names, code, default) ==
    IF 0 <= code /\ code < Len(names) THEN names[code + 1] ELSE default

get_class_name(class_id) ==
    LET mapping_divine_to_rathena == <<0, 1, 1, 2, 0, 3>>
        names == <<"Normal", "Boss", "Guardian">>
    IN  IF 0 <= class_id /\ class_id < Len(mapping_divine_to_rathena)
        THEN TableLookup(names, mapping_divine_to_rathena[class_id + 1], "Normal")
        ELSE "Normal"

get_element_name(element_id) ==
    TableLookup(<<"Neutral", "Water", "Earth", "Fire", "Wind", "Poison", "Holy",
                  "Dark", "Ghost", "Undead">>, element_id, "Neutral")

get_size_name(size_id) == TableLookup(<<"Small", "Medium", "Large">>, size_id, "Medium")

get_race_name(race_id) ==
    TableLookup(<<"Formless", "Undead", "Brute", "Plant", "Insect", "Fish", "Demon",
                  "DemiHuman", "Angel", "Dragon">>, race_id, "Formless")

(***************************************************************************)
(* utils/yaml_helper.py: the item catalog and the drop resolver.           *)
(***************************************************************************)
\* a file of the item database: absent, or holding the YAML node its text
\* denotes ("invalid" for text that is not YAML)
NoItemFile == [t |-> "nofile"]
ItemFile(node) == [t |-> "file", node |-> node]
InvalidYaml == [t |-> "invalid"]
\* an item database document with the given Body
ItemDoc(body) == JDict([Body |-> JList(body)])

\* the files of config.yaml_paths, in configured order, as shipped
ItemDbFiles ==
    << ItemFile(ItemDoc(<<[Id |-> 501, AegisName |-> "Red_Potion"]>>)),
       ItemFile(ItemDoc(<<[Id |-> 501, AegisName |-> "Red_Potion_Etc"],
                          [Id |-> 7321, AegisName |-> "Crystal_Fragment"]>>)) >>

\* load_yaml(path): None for a missing or unparseable file, {} for an empty
\* one; open() failing is not caught
load_yaml(file, io) ==
    IF file.t = "nofile" THEN Return(None)
    ELSE IF io = "open_fail" THEN Raise("OSError")
    ELSE IF file.node = InvalidYaml THEN Return(None)
    ELSE IF file.node = None THEN Return(EmptyDict)
    ELSE Return(file.node)

\* the first entry of one file's Body holding item_id, None when it has none
SearchBody(body, item_id) ==
    IF \E i \in DOMAIN body : body[i].Id = item_id
    THEN JDict(body[CHOOSE i \in DOMAIN body :
                      /\ body[i].Id = item_id
                      /\ \A j \in DOMAIN body : body[j].Id = item_id => i <= j])
    ELSE None

\* data.get("Body", []) or []
BodyList(data) ==
    LET b == py_get_default(data.v, "Body", JList(<<>>))
    IN  IF Truthy(b) THEN b.v ELSE <<>>

\* a different test: a path whose load gave None is loaded again
CacheMiss_retries(n, cache) == n \notin DOMAIN cache \/ cache[n] = None

\* `path not in _item_cache`
CacheMiss(n, cache) == n \notin DOMAIN cache

\* `_item_cache[path] = value`
CacheSet(cache, n, value) ==
    [m \in DOMAIN cache \cup {n} |-> IF m = n THEN value ELSE cache[m]]

\* the loop of search_item from path n on: the cache as it leaves it, the
\* paths read from disk, the entry returned and the exception raised
RECURSIVE SearchFrom(_, _, _, _, _, _)
SearchFrom(n, item_id, cache, files, io, read) ==
    IF n > Len(files)
    THEN [cache |-> cache, read |-> read, result |-> None, exc |-> "none"]
    ELSE LET miss == CacheMiss(n, cache)
             loaded == load_yaml(files[n], io)
         IN  IF miss /\ loaded.exc # "none"
             THEN [cache |-> cache, read |-> read \cup {n}, result |-> None,
                   exc |-> loaded.exc]
             ELSE LET cache2 == IF miss THEN CacheSet(cache, n, loaded.val) ELSE cache
                      read2 == IF miss THEN read \cup {n} ELSE read
                      data == cache2[n]
                  IN  IF ~Truthy(data)
                      THEN SearchFrom(n + 1, item_id, cache2, files, io, read2)
                      ELSE IF SearchBody(BodyList(data), item_id) # None
                      THEN [cache |-> cache2, read |-> read2,
                            result |-> SearchBody(BodyList(data), item_id), exc |-> "none"]
                      ELSE SearchFrom(n + 1, item_id, cache2, files, io, read2)

\* search_item(item_id) with _item_cache = cache and the files as they are on disk
search_item_cached(item_id, cache, files, io) == SearchFrom(1, item_id, cache, files, io, {})

\* search_item(item_id) in a process whose item database is as shipped and readable
search_item(item_id) == search_item_cached(item_id, <<>>, ItemDbFiles, "ok").result

\* a different pass: the entry is emitted whether or not the item is found
DropOf_unchecked(item) ==
    << [Item |-> IF search_item(positive(py_get(item.v, "itemId"))) = None THEN None
                 ELSE search_item(positive(py_get(item.v, "itemId"))).v.AegisName,
        Rate |-> 10, StealProtected |-> FALSE] >>

\* one pass of the loop of get_drops: <<>> when the entry is skipped
DropOf(item) ==
    LET item_id_raw == py_get(item.v, "itemId")
        id_r == py_int(item_id_raw)
        result == search_item(id_r.val)
        rate_r == py_int(py_get_default(item.v, "chance", JInt(10)))
        rate == IF rate_r.exc = "none" /\ rate_r.val > 0 THEN rate_r.val ELSE 10
    IN  IF ~Truthy(item_id_raw) THEN <<>>
        ELSE IF id_r.exc # "none" THEN <<>>
        ELSE IF result = None THEN <<>>
        ELSE << [Item |-> result.v.AegisName,
                 Rate |-> rate,
                 StealProtected |-> Truthy(py_get_default(item.v, "stealProtected",
                                                          JBool(FALSE)))] >>

RECURSIVE DropsFrom(_, _)
DropsFrom(items, n) ==
    IF n > Len(items) THEN Return(<<>>)
    ELSE IF items[n].t # "dict" THEN Raise("AttributeError")
    ELSE LET rest == DropsFrom(items, n + 1)
         IN  IF rest.exc # "none" THEN rest ELSE Return(DropOf(items[n]) \o rest.val)

\* get_drops(items); a truthy value that is no list of dicts raises on `.get`
get_drops(items) ==
    IF ~Truthy(items) THEN Return(<<>>)
    ELSE IF items.t # "list" THEN Raise("AttributeError")
    ELSE DropsFrom(items.v, 1)

(***************************************************************************)
(* main.py: the record assembler.                                          *)
(***************************************************************************)
\* config.mvp_damage_taken (its default)
MvpDamageTaken == 10

\* the first exception among the outcomes rs, "none" when there is none
FirstExc(rs) ==
    IF \E i \in DOMAIN rs : rs[i].exc # "none"
    THEN rs[CHOOSE i \in DOMAIN rs :
              rs[i].exc # "none" /\ \A j \in DOMAIN rs : rs[j].exc # "none" => i <= j].exc
    ELSE "none"

\* _build_yml_core(json_data, stats, monster_id, is_mvp); json and stats are the
\* key -> value functions of the two dicts
build_yml_core(json, stats, monster_id, is_mvp) ==
    LET sprite == py_get(json, "sprite")
        name_r == normalize_dbname(py_get_default(json, "dbname", JStr("")))
        element == py_get_default(stats, "element", JInt(0))
        elem_r == IF Truthy(element) THEN py_mod(element, 20) ELSE Return(0)
        elvl_r == IF Truthy(element) THEN py_floordiv(element, 20) ELSE Return(1)
        ai == IF Truthy(py_get(stats, "ai")) THEN py_get(stats, "ai")
              ELSE JStr("MONSTER_TYPE_21")
        ai_r == IF ai.t # "str" THEN Raise("AttributeError")
                ELSE Return(CASE ai.v = "MONSTER_TYPE_21" -> "21"
                              [] ai.v = "MONSTER_TYPE_04" -> "04"
                              [] OTHER -> ai.v)
        class == py_get(stats, "class")
        class_r == py_int(IF Truthy(class) THEN class ELSE JInt(0))
        exc == FirstExc(<<name_r, elem_r, elvl_r, ai_r, class_r>>)
        F(key, fallback) == value_fallback(py_get(stats, key), JInt(fallback))
    IN  IF exc # "none" THEN Raise(exc)
        ELSE Return(
          [Id |-> monster_id,
           AegisName |-> IF Truthy(sprite) THEN sprite ELSE JStr("MOB_" \o ToString(monster_id)),
           Name |-> name_r.val,
           Level |-> F("level", 250),
           Hp |-> F("health", 2500000),
           Sp |-> F("sp", 10000),
           BaseExp |-> F("baseExperience", 3000000),
           JobExp |-> F("jobExperience", 3000000),
           Attack |-> F("atk1", 500),
           Attack2 |-> F("atk2", 300),
           Defense |-> F("defense", 1000),
           MagicDefense |-> F("magicDefense", 600),
           Resistance |-> F("res", 500),
           MagicResistance |-> F("mres", 300),
           Str |-> F("str", 200),
           Agi |-> F("agi", 200),
           Vit |-> F("vit", 200),
           Int |-> F("int", 200),
           Dex |-> F("dex", 200),
           Luk |-> F("luk", 200),
           AttackRange |-> F("attackRange", 1),
           SkillRange |-> F("skillRange", 10),
           ChaseRange |-> F("aggroRange", 12),
           Size |-> get_size_name(positive(py_get(stats, "scale"))),
           Race |-> get_race_name(positive(py_get(stats, "race"))),
           Element |-> get_element_name(positive(JInt(elem_r.val))),
           ElementLevel |-> IF positive(JInt(elvl_r.val)) # 0
                            THEN positive(JInt(elvl_r.val)) ELSE 1,
           WalkSpeed |-> F("movementSpeed", 100),
           AttackDelay |-> F("attackSpeed", 500),
           AttackMotion |-> F("attackedSpeed", 700),
           ClientAttackMotion |-> F("attackedSpeed", 700),
           DamageMotion |-> F("attackedSpeed", 700),
           DamageTaken |-> IF is_mvp THEN MvpDamageTaken ELSE 100,
           Ai |-> positive(JStr(ai_r.val)),
           class |-> get_class_name(class_r.val)])

\* a different _attach_drops: the Drops key is set even when nothing resolved
attach_drops_always(yml, json, is_mvp) ==
    LET normal_r == get_drops(py_get_default(json, "drops", JList(<<>>)))
    IN  IF normal_r.exc # "none" THEN Raise(normal_r.exc)
        ELSE Return(yml @@ ("Drops" :> normal_r.val))

\* _attach_drops(yml, json_data, is_mvp): the keys it adds to yml
attach_drops(yml, json, is_mvp) ==
    LET mvp_r == IF is_mvp THEN get_drops(py_get_default(json, "mvpdrops", JList(<<>>)))
                 ELSE Return(<<>>)
        normal_r == get_drops(py_get_default(json, "drops", JList(<<>>)))
        exc == FirstExc(<<mvp_r, normal_r>>)
    IN  IF exc # "none" THEN Raise(exc)
        ELSE Return(yml
                @@ (IF is_mvp THEN ("Modes" :> [Mvp |-> TRUE]) ELSE <<>>)
                @@ (IF is_mvp /\ mvp_r.val # <<>> THEN ("MvpDrops" :> mvp_r.val) ELSE <<>>)
                @@ (IF normal_r.val # <<>> THEN ("Drops" :> normal_r.val) ELSE <<>>))

\* the empty dict mount_monster_yaml returns for an invalid identifier
EmptyYml == <<>>

\* a different identifier check: zero is let through
id_accepted_any(monster_id) == TRUE

\* `if not monster_id: return {}` negated: the identifier is kept
id_accepted(monster_id) == monster_id # 0

\* mount_monster_yaml(json_data)
mount_monster_yaml(json_data) ==
    LET id_r == IF json_data.t # "dict" THEN Raise("AttributeError")
                ELSE py_int(py_get(json_data.v, "id"))
    IN  IF id_r.exc # "none" THEN Return(EmptyYml)
        ELSE IF ~id_accepted(id_r.val) THEN Return(EmptyYml)
        ELSE LET stats == py_get_default(json_data.v, "stats", EmptyDict)
                 mvp == IF stats.t = "dict" THEN py_get(stats.v, "mvp") ELSE None
                 mvp_r == IF stats.t # "dict" THEN Raise("AttributeError")
                          ELSE py_int(IF Truthy(mvp) THEN mvp ELSE JInt(0))
                 is_mvp == mvp_r.val = 1
             IN  IF mvp_r.exc # "none" THEN Raise(mvp_r.exc)
                 ELSE LET core == build_yml_core(json_data.v, stats.v, id_r.val, is_mvp)
                      IN  IF core.exc # "none" THEN core
                          ELSE attach_drops(core.val, json_data.v, is_mvp)

(***************************************************************************)
(* Files.  A path holds no file, or a file with its content.  The monster  *)
(* document's content is the YAML node its text denotes, or Invalid for    *)
(* text that is not YAML.                                                  *)
(***************************************************************************)
NoFile == [t |-> "nofile"]
Invalid == [t |-> "invalid"]
YamlFile(node) == [t |-> "file", text |-> node]
TextFile(lines) == [t |-> "file", lines |-> lines]

\* yaml.safe_load: YAMLError on text that does not parse; an empty file is None
yaml_safe_load(text) ==
    IF text = Invalid THEN Raise("YAMLError") ELSE Return(text)

\* yaml.dump(data, sort_keys=False): the node tree of a value built from dicts,
\* lists, strings, integers and booleans; PyYAML quotes a string that would read
\* back as another type, so the node read back is the value written
yaml_dump(data) == data

\* Header: {Type: MOB_DB, Version: 2}
HeaderDefault == JDict([Type |-> JStr("MOB_DB"), Version |-> JInt(2)])
\* {"Header": {...}, "Body": []}
EmptyExport == JDict([Header |-> HeaderDefault, Body |-> JList(<<>>)])

(***************************************************************************)
(* utils/yaml_helper.py: init_export_yaml.                                 *)
(* io is what the file system does: "ok", or the step that fails.          *)
(***************************************************************************)
\* a different init: a file that is already there is kept as it is
init_export_yaml_keeps(file, io) ==
    IF file.t # "nofile" THEN [file |-> file, exc |-> "none"]
    ELSE [file |-> YamlFile(yaml_dump(EmptyExport)), exc |-> "none"]

init_export_yaml(file, io) ==
    IF file.t # "nofile" /\ io = "remove_fail"
    THEN [file |-> file, exc |-> "OSError"]
    ELSE IF io = "open_fail" THEN [file |-> NoFile, exc |-> "OSError"]
    ELSE IF io = "write_fail" THEN [file |-> YamlFile(None), exc |-> "OSError"]
    ELSE [file |-> YamlFile(yaml_dump(EmptyExport)), exc |-> "none"]

(***************************************************************************)
(* utils/yaml_helper.py: load_monster_db.                                  *)
(***************************************************************************)
load_monster_db(file, io) ==
    IF file.t = "nofile"
    THEN IF io = "load_fail" THEN Raise("OSError") ELSE Return(EmptyExport)
    ELSE IF io = "load_fail" THEN Raise("OSError")
    ELSE LET parsed == yaml_safe_load(file.text)
             data == IF parsed.exc = "YAMLError" THEN EmptyDict
                     ELSE IF Truthy(parsed.val) THEN parsed.val ELSE EmptyDict
         IN  IF data.t # "dict" THEN Raise("AttributeError")
             ELSE Return(JDict(setdefault(setdefault(data.v, "Header", HeaderDefault),
                                          "Body", JList(<<>>))))

(***************************************************************************)
(* utils/yaml_helper.py: save_monster_db.                                  *)
(***************************************************************************)
save_monster_db(file, data, io) ==
    IF io = "open_fail" THEN [file |-> file, exc |-> "OSError"]
    ELSE IF io = "write_fail" THEN [file |-> YamlFile(None), exc |-> "OSError"]
    ELSE [file |-> YamlFile(yaml_dump(data)), exc |-> "none"]

(***************************************************************************)
(* utils/yaml_helper.py: upsert_monster.                                   *)
(***************************************************************************)
\* the scan `for i, mob in enumerate(body): if mob.get("Id") == mob_id`:
\* the first index holding mob_id, 0 when there is none
FindId(body, mob_id) ==
    IF \E i \in DOMAIN body : body[i].Id = mob_id
    THEN CHOOSE i \in DOMAIN body :
            /\ body[i].Id = mob_id
            /\ \A j \in DOMAIN body : body[j].Id = mob_id => i <= j
    ELSE 0

\* a different merge: the entry is always appended
upsert_body_append(body, entry) == Append(body, entry)

\* `body[i] = entry` on a match, `body.append(entry)` otherwise
upsert_body(body, entry) ==
    LET i == FindId(body, entry.Id)
    IN  IF i > 0 THEN [body EXCEPT ![i] = entry] ELSE Append(body, entry)

\* a different write-back: a fresh document around the body
set_body_fresh(db, body) == [Header |-> HeaderDefault, Body |-> JList(body)]

\* `db["Body"] = body`
set_body(db, body) == [db EXCEPT !["Body"] = JList(body)]

\* a different return value: always False
upsert_updated_never(body, entry) == FALSE

\* `updated`: whether the scan found the identifier
upsert_updated(body, entry) == FindId(body, entry.Id) > 0

upsert_monster(entry, file, io) ==
    LET ld == load_monster_db(file, io)
    IN  IF ld.exc # "none" THEN [file |-> file, ret |-> FALSE, exc |-> ld.exc]
        ELSE LET db == ld.val.v
                 body == db["Body"]
             IN  IF body.t # "list"
                 THEN [file |-> file, ret |-> FALSE, exc |-> "TypeError"]
                 ELSE LET sv == save_monster_db(file,
                                   JDict(set_body(db, upsert_body(body.v, entry))), io)
                      IN  [file |-> sv.file,
                           ret |-> upsert_updated(body.v, entry),
                           exc |-> sv.exc]

(***************************************************************************)
(* utils/file_helper.py.  A text file is the sequence of its lines.        *)
(***************************************************************************)
\* a different reset: the old lines are kept
init_file_keep(file, io) ==
    [file |-> IF file.t = "nofile" THEN TextFile(<<>>) ELSE file, exc |-> "none"]

\* init_file(path)
init_file(file, io) ==
    IF io = "mkdir_fail" THEN [file |-> file, exc |-> "RuntimeError"]
    ELSE IF file.t # "nofile" /\ io = "remove_fail"
         THEN [file |-> file, exc |-> "RuntimeError"]
    ELSE IF io = "open_fail" THEN [file |-> NoFile, exc |-> "RuntimeError"]
    ELSE [file |-> TextFile(<<>>), exc |-> "none"]

\* append_line(path, line): the file is created when missing
append_line(file, line, io) ==
    IF io # "ok" THEN [file |-> file, exc |-> "RuntimeError"]
    ELSE [file |-> TextFile((IF file.t = "nofile" THEN <<>> ELSE file.lines) \o <<line>>),
          exc |-> "none"]

(***************************************************************************)
(* utils/spawn_helper.py: build_line.  A line is the record of the values  *)
(* formatted into "<map>,<x>,<y> TAB monster TAB <name> TAB <id>,<n>,<ms>".*)
(***************************************************************************)
spawn_build_line(mapname, x, y, mobname, mobid, amount, delay) ==
    [mapname |-> safe_str(mapname),
     x |-> safe_int(x, 0),
     y |-> safe_int(y, 0),
     mobname |-> safe_str(mobname),
     mobid |-> safe_int(mobid, 0),
     amount |-> safe_int(amount, 1),
     delay |-> safe_int(delay, 5000)]

\* the body of the try block of generate_spawn for one entry
spawn_line(monster_id, json, spawn) ==
    LET name_r == normalize_dbname(py_get_default(json, "dbname", JStr("")))
    IN  IF spawn.t # "dict" THEN Raise("AttributeError")
        ELSE IF name_r.exc # "none" THEN name_r
        ELSE Return(spawn_build_line(py_get_default(spawn.v, "mapname", JStr("")),
                                     JInt(0), JInt(0), JStr(name_r.val), JInt(monster_id),
                                     py_get_default(spawn.v, "amount", JInt(50)),
                                     py_get_default(spawn.v, "respawnTime", JInt(5000))))

(***************************************************************************)
(* utils/skill_helper.py.  A line is the record of the 19 values build_line*)
(* joins with commas, under the names build_line gives them.               *)
(***************************************************************************)
\* str.upper() and str.lower() on the model's strings
upper(s) == CASE s = "if_slavenum" -> "IF_SLAVENUM"
              [] s = "send_emoticon" -> "SEND_EMOTICON"
              [] OTHER -> s
lower(s) == s

\* str(v)
py_str(v) ==
    CASE v.t = "str" -> v.v
      [] v.t = "int" -> ToString(v.v)
      [] v.t = "bool" -> IF v.v THEN "True" ELSE "False"
      [] v.t = "null" -> "None"
      [] OTHER -> "[...]"

KNOWN_CONDITIONS ==
    [IF_HP |-> <<"myhpltmaxrate", "self">>,
     IF_MONSTERCOUNT |-> <<"monstersaround", "self">>,
     IF_ENEMYCOUNT |-> <<"enemycount", "target">>,
     IF_RUDEATTACK |-> <<"rudeattacked", "target">>,
     IF_RANGEATTACKED |-> <<"farerangeattacked", "target">>,
     IF_MAGICLOCKED |-> <<"magiclocked", "self">>,
     IF_GROUNDATTACKCHECK |-> <<"groundattacked", "self">>,
     IF_SKILLUSE |-> <<"skillused", "target">>,
     IF_SLAVENUM |-> <<"slavereqgt", "self">>,
     IF_JOBCHECK |-> <<"job", "target">>]

RATHENA_CONDITION_WHITELIST ==
    {"myhpltmaxrate", "monstersaround", "enemycount", "rudeattacked", "farerangeattacked",
     "magiclocked", "groundattacked", "skillused", "slavereqgt", "job"}

KNOWN_SEND_TYPES == {"SEND_EMOTICON"}

CONDITION_TARGET_MAP == [self |-> "self", enemy |-> "target", target |-> "target"]

\* a different map_condition: the value of an unmapped condition is kept
map_condition_keeps_value(cond, value) ==
    IF ~Truthy(cond) THEN Return([cond_type |-> "", cond_value |-> JStr(""), logical_target |-> ""])
    ELSE IF cond.t # "str" THEN Raise("AttributeError")
    ELSE IF upper(strip(cond.v)) \notin DOMAIN KNOWN_CONDITIONS
         THEN Return([cond_type |-> "", cond_value |-> value, logical_target |-> ""])
    ELSE Return([cond_type |-> KNOWN_CONDITIONS[upper(strip(cond.v))][1],
                 cond_value |-> IF Truthy(value) THEN value ELSE JStr(""),
                 logical_target |-> KNOWN_CONDITIONS[upper(strip(cond.v))][2]])

\* map_condition(cond, value): (condition_type, condition_value, logical_target)
map_condition(cond, value) ==
    IF ~Truthy(cond) THEN Return([cond_type |-> "", cond_value |-> JStr(""), logical_target |-> ""])
    ELSE IF cond.t # "str" THEN Raise("AttributeError")
    ELSE LET cond_key == upper(strip(cond.v))
             cond_value == IF Truthy(value) THEN value ELSE JStr("")
         IN  IF cond_key \notin DOMAIN KNOWN_CONDITIONS
             THEN Return([cond_type |-> "", cond_value |-> JStr(""), logical_target |-> ""])
             ELSE Return([cond_type |-> KNOWN_CONDITIONS[cond_key][1],
                          cond_value |-> IF cond_key = "IF_SLAVENUM" /\ ~Truthy(cond_value)
                                         THEN JStr("1") ELSE cond_value,
                          logical_target |-> KNOWN_CONDITIONS[cond_key][2]])

\* map_send(send_type, send_value): (emotion, chat, sound)
map_send(send_type, send_value) ==
    IF ~Truthy(send_type) THEN Return(<<"", "", "">>)
    ELSE IF send_type.t # "str" THEN Raise("AttributeError")
    ELSE IF upper(strip(send_type.v)) \notin KNOWN_SEND_TYPES THEN Return(<<"", "", "">>)
    ELSE Return(<<py_str(IF Truthy(send_value) THEN send_value ELSE JStr("")), "", "">>)

\* a different target: a logical target the table does not hold is left empty
rathena_target_or_empty(logical_target) ==
    IF lower(logical_target) \in DOMAIN CONDITION_TARGET_MAP
    THEN CONDITION_TARGET_MAP[lower(logical_target)] ELSE logical_target

\* CONDITION_TARGET_MAP.get((logical_target or "").lower(), "target")
rathena_target_for(logical_target) ==
    IF lower(logical_target) \in DOMAIN CONDITION_TARGET_MAP
    THEN CONDITION_TARGET_MAP[lower(logical_target)] ELSE "target"

\* int(skill.get(key) or default)
IntOr(skill, key, default) ==
    py_int(IF Truthy(py_get(skill, key)) THEN py_get(skill, key) ELSE JInt(default))

skill_build_line(mob_id, dbname, skill) ==
    LET status == IF skill.t = "dict" /\ Truthy(py_get(skill.v, "status"))
                  THEN py_get(skill.v, "status") ELSE JStr("IDLE_ST")
        status_r == IF status.t # "str" THEN Raise("AttributeError")
                    ELSE Return(strip(status.v))
        skill_id == IntOr(skill.v, "skillId", 0)
        level == IntOr(skill.v, "level", 1)
        chance == IntOr(skill.v, "chance", 100)
        cast == IntOr(skill.v, "casttime", 0)
        delay == IntOr(skill.v, "delay", 0)
        interruptable == Truthy(py_get_default(skill.v, "interruptable", JBool(TRUE)))
        cond == map_condition(py_get(skill.v, "condition"), py_get(skill.v, "conditionValue"))
        cleared == cond.val.cond_type # "" /\ cond.val.cond_type \notin RATHENA_CONDITION_WHITELIST
        idx_v == py_get(skill.v, "idx")
        change_to == py_get(skill.v, "changeTo")
        send == map_send(py_get(skill.v, "sendType"), py_get(skill.v, "sendValue"))
        exc == FirstExc(<<status_r, skill_id, level, chance, cast, delay, cond, send>>)
    IN  IF skill.t # "dict" THEN Raise("AttributeError")
        ELSE IF exc # "none" THEN Raise(exc)
        ELSE Return([mob_id |-> mob_id,
                     state |-> <<dbname, status_r.val>>,
                     skill_state |-> "attack",
                     skill_id |-> skill_id.val,
                     level |-> level.val,
                     chance |-> chance.val,
                     cast |-> cast.val,
                     delay |-> delay.val,
                     cancelable |-> IF interruptable THEN "yes" ELSE "no",
                     rathena_target |-> rathena_target_for(cond.val.logical_target),
                     cond_type |-> IF cleared THEN "" ELSE cond.val.cond_type,
                     cond_value |-> IF cleared THEN "" ELSE py_str(cond.val.cond_value),
                     val1 |-> IF idx_v # None THEN py_str(idx_v) ELSE "",
                     val2 |-> IF change_to # None THEN py_str(change_to) ELSE "",
                     val3 |-> "",
                     val4 |-> "",
                     emotion |-> send.val[1],
                     chat |-> send.val[2],
                     sound |-> send.val[3]])

(***************************************************************************)
(* services/monster.py: fetch.  response is what the network answers: a    *)
(* JSON document, or one of the failures.                                  *)
(***************************************************************************)
FetchFailures == {"Timeout", "HTTPError", "RequestException", "InvalidJSON"}

\* a different fetch: an invalid JSON body is not recorded
fetch_forgets(monster_id, response, not_found) ==
    IF response.kind = "json" THEN [json |-> response.body, not_found |-> not_found]
    ELSE IF response.kind = "InvalidJSON" THEN [json |-> None, not_found |-> not_found]
    ELSE [json |-> None, not_found |-> Append(not_found, monster_id)]

\* fetch(url, monster_id) with config.monsters_not_found
fetch(monster_id, response, not_found) ==
    IF response.kind = "json" THEN [json |-> response.body, not_found |-> not_found]
    ELSE [json |-> None, not_found |-> Append(not_found, monster_id)]

(***************************************************************************)
(* main.py: the parse of the identifier list.                              *)
(***************************************************************************)
\* a different parse: a piece that is no integer is dropped
RECURSIVE parse_ids_lenient(_)
parse_ids_lenient(pieces) ==
    IF pieces = <<>> THEN Return(<<>>)
    ELSE LET rest == parse_ids_lenient(Tail(pieces))
             x == strip(Head(pieces))
         IN  IF x = "" \/ py_int(JStr(x)).exc # "none" THEN rest
             ELSE Return(<<py_int(JStr(x)).val>> \o rest.val)

\* [int(x.strip()) for x in sys.argv[1].split(",") if x.strip()]
RECURSIVE parse_ids(_)
parse_ids(pieces) ==
    IF pieces = <<>> THEN Return(<<>>)
    ELSE LET rest == parse_ids(Tail(pieces))
             x == strip(Head(pieces))
         IN  IF x = "" THEN rest
             ELSE IF py_int(JStr(x)).exc # "none" THEN Raise("ValueError")
             ELSE IF rest.exc # "none" THEN rest
             ELSE Return(<<py_int(JStr(x)).val>> \o rest.val)

(***************************************************************************)
(* State.                                                                  *)
(***************************************************************************)
VARIABLES
    pc,         \* where main() is: start, reset_mob, reset_spawn, reset_skill, loop,
                \* monster, spawn, skill; done, exit1 (sys.exit(1)), crashed (an
                \* exception left main)
    argv,       \* sys.argv
    monster_ids,            \* the parsed identifier list
    idx,        \* position in monster_ids of the identifier being processed
    k,          \* position in the spawn or skill list being written
    json_data,  \* the source record fetched for monster_ids[idx]
    mobdb,      \* the file at config.new_mob_db_path
    spawns,     \* the file at config.new_spawns_path
    skills,     \* the file at config.new_skills_path
    monsters_not_found,     \* config.monsters_not_found
    resets,     \* how many times each output has been reset in this run
    resp,       \* what the network answered to the last fetch
    last_io,    \* what the file system did in the last step ("none": no file call)
    call,       \* the last document-store call: its name, argument and outcome
    upserted,   \* the entries upsert_monster has stored since init_export_yaml
    fn,         \* the library function applied last ("none": none yet)
    arg,        \* the arguments it was applied to
    out,        \* what it returned or raised
    item_cache, \* yaml_helper._item_cache: the loaded content of each path in it
    catalog,    \* the item database files of config.yaml_paths as they are on disk
    reads       \* how many times each of them has been read in this process

batchVars == <<pc, argv, monster_ids, idx, k, json_data, spawns, skills,
               monsters_not_found, resets, resp, last_io>>
libVars == <<upserted, fn, arg, out, item_cache, catalog, reads>>
vars == <<pc, argv, monster_ids, idx, k, json_data, mobdb, spawns, skills,
          monsters_not_found, resets, resp, last_io, call,
          upserted, fn, arg, out, item_cache, catalog, reads>>

\* the state of the variables a specification does not use
LibIdle ==
    /\ upserted = <<>>
    /\ fn = "none"
    /\ arg = <<>>
    /\ out = Return(None)
    /\ item_cache = <<>>
    /\ catalog = <<>>
    /\ reads = <<>>

(***************************************************************************)
(* SpecStore: document-store calls on a document found on disk.            *)
(***************************************************************************)
MobIds == 1..MaxMobId
\* monster entries as the store sees them: a dict with "Id" and other fields
StoreEntries == [Id : MobIds, Level : {10, 250}]

\* lists of entries with pairwise distinct Id (the store's own invariant)
RECURSIVE BodiesOver(_)
BodiesOver(ids) ==
    {<<>>} \cup UNION { { <<e>> \o rest : e \in {x \in StoreEntries : x.Id = i},
                                          rest \in BodiesOver(ids \ {i}) } : i \in ids }

\* a header written by another tool or schema version
HeaderOther == JDict([Type |-> JStr("MOB_DB"), Version |-> JInt(3)])

\* documents a path can hold when a store call starts
StoreFiles ==
    {NoFile, YamlFile(None), YamlFile(Invalid), YamlFile(JList(<<JInt(1)>>)),
     YamlFile(EmptyDict),
     YamlFile(JDict([Header |-> HeaderDefault])),
     YamlFile(JDict([Header |-> HeaderDefault, Body |-> None]))}
    \cup { YamlFile(JDict([Header |-> h, Body |-> JList(b)])) :
              h \in {HeaderDefault, HeaderOther, None}, b \in BodiesOver(MobIds) }
    \cup { YamlFile(JDict([Body |-> JList(b)])) : b \in BodiesOver(MobIds) }

NoCall == [op |-> "none", entry |-> [Id |-> 0, Level |-> 0], ret |-> FALSE, exc |-> "none"]

StoreInitState ==
    /\ mobdb \in StoreFiles
    /\ call = NoCall
    /\ pc = "store"
    /\ argv = [n |-> 0, pieces |-> <<>>]
    /\ monster_ids = <<>>
    /\ idx = 1
    /\ k = 1
    /\ json_data = None
    /\ spawns = NoFile
    /\ skills = NoFile
    /\ monsters_not_found = <<>>
    /\ resets = [mob |-> 0, spawn |-> 0, skill |-> 0]
    /\ resp = "none"
    /\ last_io = "none"
    /\ LibIdle

StoreUpsert(entry, io) ==
    LET r == upsert_monster(entry, mobdb, io)
    IN  /\ mobdb' = r.file
        /\ call' = [op |-> "upsert", entry |-> entry, ret |-> r.ret, exc |-> r.exc]
        /\ UNCHANGED batchVars
        /\ UNCHANGED libVars

StoreInitExport(io) ==
    LET r == init_export_yaml(mobdb, io)
    IN  /\ mobdb' = r.file
        /\ call' = [op |-> "init", entry |-> NoCall.entry, ret |-> FALSE, exc |-> r.exc]
        /\ UNCHANGED batchVars
        /\ UNCHANGED libVars

StoreNext ==
    \/ \E entry \in StoreEntries, io \in {"ok", "load_fail", "open_fail", "write_fail"} :
          StoreUpsert(entry, io)
    \/ \E io \in {"ok", "remove_fail", "open_fail", "write_fail"} : StoreInitExport(io)

SpecStore == StoreInitState /\ [][StoreNext]_vars

(***************************************************************************)
(* Views used by the properties of the document store.                     *)
(***************************************************************************)
\* loadDocument(path) when the file system answers
Loaded(file) == load_monster_db(file, "ok")
\* whether the path holds a document: a missing or empty file, or a mapping
\* whose Body (when present) is a list of records
IsDocument(file) == Loaded(file).exc = "none" /\ Loaded(file).val.v["Body"].t = "list"
\* the record collection and the header loadDocument(path) returns
BodyOf(file) == Loaded(file).val.v["Body"].v
HeaderOf(file) == Loaded(file).val.v["Header"]
\* the positions of identifier id in a record collection
Positions(body, id) == {i \in DOMAIN body : body[i].Id = id}
\* a step that is a completed upsertRecord(call'.entry, path): every store call
\* records its name, argument and outcome in call
UpsertReturns == call'.op = "upsert" /\ call'.exc = "none"

(***************************************************************************)
(* C1: after upsertRecord(r, path) has returned, loadDocument(path)        *)
(* returns a record collection holding exactly one record whose Id is      *)
(* r.Id, and that record equals r.                                         *)
(***************************************************************************)
C1_RoundTrip ==
    (call.op = "upsert" /\ call.exc = "none") =>
        /\ IsDocument(mobdb)
        /\ Cardinality(Positions(BodyOf(mobdb), call.entry.Id)) = 1
        /\ \A i \in Positions(BodyOf(mobdb), call.entry.Id) : BodyOf(mobdb)[i] = call.entry

\* an upsert into a document that already held other records and this Id
C1_Witness ==
    /\ call.op = "upsert" /\ call.exc = "none" /\ call.ret
    /\ IsDocument(mobdb) /\ Len(BodyOf(mobdb)) >= 2

(***************************************************************************)
(* C2: upsertRecord(record, path) returns true and replaces the record at  *)
(* its existing index, the length unchanged, when a record with the same   *)
(* Id is in the document; otherwise it returns false and the record        *)
(* becomes the last element, the length growing by exactly one.            *)
(***************************************************************************)
C2_ReplaceOrAppend ==
    [][UpsertReturns =>
             LET entry == call'.entry
                 b == BodyOf(mobdb)
                 a == BodyOf(mobdb')
             IN  IF Positions(b, entry.Id) # {}
                 THEN /\ call'.ret = TRUE
                      /\ Len(a) = Len(b)
                      /\ \A i \in Positions(b, entry.Id) : a[i] = entry
                 ELSE /\ call'.ret = FALSE
                      /\ Len(a) = Len(b) + 1
                      /\ a[Len(a)] = entry]_vars

\* an upsert that returned false and appended after existing records
C2_Witness ==
    /\ call.op = "upsert" /\ call.exc = "none" /\ ~call.ret
    /\ IsDocument(mobdb) /\ Len(BodyOf(mobdb)) >= 2
    /\ BodyOf(mobdb)[Len(BodyOf(mobdb))] = call.entry

(***************************************************************************)
(* C3: upsertRecord(r, path) leaves every record whose Id differs from     *)
(* r.Id unchanged in content and position, and leaves the Header           *)
(* unchanged; only the matching slot, or a new last slot, changes.         *)
(***************************************************************************)
C3_Frame ==
    [][UpsertReturns =>
             LET entry == call'.entry
                 b == BodyOf(mobdb)
                 a == BodyOf(mobdb')
             IN  /\ HeaderOf(mobdb') = HeaderOf(mobdb)
                 /\ Len(a) \in {Len(b), Len(b) + 1}
                 /\ \A i \in DOMAIN b : b[i].Id # entry.Id => a[i] = b[i]
                 /\ \A i \in DOMAIN a : a[i].Id # entry.Id => i \in DOMAIN b]_vars

\* an in-place update between two other records under a foreign header
C3_Witness ==
    /\ call.op = "upsert" /\ call.exc = "none" /\ call.ret
    /\ IsDocument(mobdb) /\ Len(BodyOf(mobdb)) = 3
    /\ BodyOf(mobdb)[2] = call.entry
    /\ HeaderOf(mobdb) = HeaderOther

(***************************************************************************)
(* Spec: one run of main().                                                *)
(***************************************************************************)
\* the command line: n arguments after the script name and, when n = 1, the
\* pieces of sys.argv[1].split(",")
Pieces == {"1", " 2", "", "x"}
Argvs ==
    {[n |-> 0, pieces |-> <<>>], [n |-> 2, pieces |-> <<>>]}
    \cup { [n |-> 1, pieces |-> p] : p \in UNION { [1..m -> Pieces] : m \in 1..MaxArgs } }

\* the source record of an earlier run, and what that run left in the outputs
StaleId == MaxMobId + 1
StaleJson == DictOf([id |-> JInt(StaleId), dbname |-> JStr("scorpion")])
StaleDoc ==
    YamlFile(JDict([Header |-> HeaderDefault,
                    Body |-> JList(<<mount_monster_yaml(StaleJson).val>>)]))
StaleSpawns ==
    TextFile(<<spawn_build_line(JStr("abbey01"), JInt(0), JInt(0), JStr("Scorpion"),
                                JInt(StaleId), JInt(21), JInt(5000))>>)
StaleSkills ==
    TextFile(<<skill_build_line(StaleId, "Scorpion", JDict([skillId |-> JInt(26)])).val>>)

\* source records the API can answer with for a requested identifier
SpawnSample(j) ==
    IF j = 1
    THEN JDict([mapname |-> JStr(" abbey01 "), amount |-> JInt(21), respawnTime |-> JInt(5000)])
    ELSE JDict([mapname |-> JStr("abbey02"), amount |-> JStr("x")])
SkillSample(j) ==
    IF j = 1
    THEN JDict([skillId |-> JInt(26), status |-> JStr("RUSH_ST"), level |-> JInt(j)])
    ELSE JDict([skillId |-> JStr("x"), status |-> JStr("RUSH_ST"), level |-> JInt(j)])
NominalStats ==
    JDict([level |-> JInt(21), class |-> JInt(1), mvp |-> JInt(1), element |-> JInt(26),
           ai |-> JStr("MONSTER_TYPE_04"), scale |-> JInt(2), race |-> JInt(3)])
SourceJson(id, stats, ns, nk) ==
    DictOf([id |-> id, dbname |-> JStr("HOLY_FRUS"), stats |-> stats,
            spawn |-> JList([j \in 1..ns |-> SpawnSample(j)]),
            skill |-> JList([j \in 1..nk |-> SkillSample(j)]),
            drops |-> JList(<<JDict([itemId |-> JInt(501), chance |-> JInt(1500)]),
                              JDict([itemId |-> JInt(3)])>>),
            mvpdrops |-> JList(<<JDict([itemId |-> JInt(7321)])>>)])
\* identifiers the source record can carry instead of the requested one
OddIds(id) == {JInt(0), JStr("abc"), Absent, JInt(-id)}
\* a record whose one skill entry has a skillId that is no number
UnbuildableSkillJson(id) ==
    DictOf([id |-> JInt(id), dbname |-> JStr("HOLY_FRUS"), stats |-> NominalStats,
            skill |-> JList(<<SkillSample(2)>>)])
\* a record with identifier 0 and a spawn entry
UnidentifiedSpawnJson ==
    DictOf([id |-> JInt(0), dbname |-> JStr("HOLY_FRUS"), stats |-> NominalStats,
            spawn |-> JList(<<SpawnSample(1)>>)])
Responses(id) ==
    { [kind |-> f, body |-> None] : f \in FetchFailures }
    \cup { [kind |-> "json", body |-> SourceJson(JInt(id), NominalStats, ns, nk)] :
              ns \in 0..MaxSpawn, nk \in 0..MaxSkill }
    \cup { [kind |-> "json", body |-> SourceJson(v, NominalStats, 0, 0)] : v \in OddIds(id) }
    \cup { [kind |-> "json", body |-> b] :
              b \in {SourceJson(JInt(id), None, 0, 0), EmptyDict, JList(<<JInt(1)>>),
                     UnbuildableSkillJson(id), UnidentifiedSpawnJson} }

Init ==
    /\ pc = "start"
    /\ argv \in Argvs
    /\ monster_ids = <<>>
    /\ idx = 1
    /\ k = 1
    /\ json_data = None
    /\ mobdb \in {NoFile, StaleDoc}
    /\ spawns \in {NoFile, StaleSpawns}
    /\ skills \in {NoFile, StaleSkills}
    /\ monsters_not_found = <<>>
    /\ resets = [mob |-> 0, spawn |-> 0, skill |-> 0]
    /\ resp = "none"
    /\ last_io = "none"
    /\ call = NoCall
    /\ LibIdle

\* main.py 224-241: the checks before any output is touched
ValidateArgs ==
    /\ pc = "start"
    /\ LET ids == parse_ids(argv.pieces)
       IN  IF argv.n # 1 \/ ids.exc # "none" \/ ids.val = <<>>
           THEN pc' = "exit1" /\ UNCHANGED monster_ids
           ELSE pc' = "reset_mob" /\ monster_ids' = ids.val
    /\ last_io' = "none"
    /\ UNCHANGED <<argv, idx, k, json_data, mobdb, spawns, skills, monsters_not_found,
                   resets, resp, call>>
    /\ UNCHANGED libVars

\* main.py 244: utils.yaml_helper.init_export_yaml(config.new_mob_db_path)
ResetMobDb(io) ==
    /\ pc = "reset_mob"
    /\ io = "remove_fail" => mobdb.t # "nofile"
    /\ LET r == init_export_yaml(mobdb, io)
       IN  /\ mobdb' = r.file
           /\ pc' = IF r.exc = "none" THEN "reset_spawn" ELSE "crashed"
    /\ resets' = [resets EXCEPT !.mob = @ + 1]
    /\ last_io' = io
    /\ UNCHANGED <<argv, monster_ids, idx, k, json_data, spawns, skills,
                   monsters_not_found, resp, call>>
    /\ UNCHANGED libVars

\* main.py 245: utils.file_helper.init_file(config.new_spawns_path)
ResetSpawns(io) ==
    /\ pc = "reset_spawn"
    /\ io = "remove_fail" => spawns.t # "nofile"
    /\ LET r == init_file(spawns, io)
       IN  /\ spawns' = r.file
           /\ pc' = IF r.exc = "none" THEN "reset_skill" ELSE "crashed"
    /\ resets' = [resets EXCEPT !.spawn = @ + 1]
    /\ last_io' = io
    /\ UNCHANGED <<argv, monster_ids, idx, k, json_data, mobdb, skills,
                   monsters_not_found, resp, call>>
    /\ UNCHANGED libVars

\* main.py 246: utils.file_helper.init_file(config.new_skills_path)
ResetSkills(io) ==
    /\ pc = "reset_skill"
    /\ io = "remove_fail" => skills.t # "nofile"
    /\ LET r == init_file(skills, io)
       IN  /\ skills' = r.file
           /\ pc' = IF r.exc = "none" THEN "loop" ELSE "crashed"
    /\ resets' = [resets EXCEPT !.skill = @ + 1]
    /\ last_io' = io
    /\ UNCHANGED <<argv, monster_ids, idx, k, json_data, mobdb, spawns,
                   monsters_not_found, resp, call>>
    /\ UNCHANGED libVars

\* main.py 249-255: the fetch of the next identifier and the test of its result
Fetch ==
    /\ pc = "loop"
    /\ idx <= Len(monster_ids)
    /\ \E response \in Responses(monster_ids[idx]) :
          LET r == fetch(monster_ids[idx], response, monsters_not_found)
          IN  /\ monsters_not_found' = r.not_found
              /\ json_data' = r.json
              /\ IF Truthy(r.json)
                 THEN pc' = "monster" /\ UNCHANGED idx
                 ELSE pc' = "loop" /\ idx' = idx + 1
              /\ resp' = response.kind
    /\ last_io' = "none"
    /\ UNCHANGED <<argv, monster_ids, k, mobdb, spawns, skills, resets, call>>
    /\ UNCHANGED libVars

\* main.py 256: generate_monster(monster_id, json_data)
GenerateMonster(io) ==
    /\ pc = "monster"
    /\ LET yml == mount_monster_yaml(json_data)
       IN  IF yml.exc # "none"
           THEN /\ io = "ok"
                /\ pc' = "crashed"
                /\ last_io' = "none"
                /\ UNCHANGED <<mobdb, call>>
           ELSE IF yml.val = EmptyYml
           THEN /\ io = "ok"
                /\ pc' = "spawn"
                /\ last_io' = "none"
                /\ UNCHANGED <<mobdb, call>>
           ELSE LET r == upsert_monster(yml.val, mobdb, io)
                IN  /\ mobdb' = r.file
                    /\ call' = [op |-> "upsert", entry |-> yml.val,
                                ret |-> r.ret, exc |-> r.exc]
                    /\ pc' = IF r.exc = "none" THEN "spawn" ELSE "crashed"
                    /\ last_io' = io
    /\ UNCHANGED <<argv, monster_ids, idx, k, json_data, spawns, skills,
                   monsters_not_found, resets, resp>>
    /\ UNCHANGED libVars

\* the list a generator iterates: json_data.get(key, []) when it is truthy
Entries(json, key) ==
    LET l == py_get_default(json.v, key, JList(<<>>))
    IN  IF Truthy(l) /\ l.t = "list" THEN l.v ELSE <<>>

\* main.py 159-172: one pass of the loop of generate_spawn
GenerateSpawnEntry(io) ==
    /\ pc = "spawn"
    /\ json_data.t = "dict"
    /\ k <= Len(Entries(json_data, "spawn"))
    /\ LET line == spawn_line(monster_ids[idx], json_data.v, Entries(json_data, "spawn")[k])
       IN  IF line.exc # "none"
           THEN io = "ok" /\ last_io' = "none" /\ UNCHANGED spawns
           ELSE spawns' = append_line(spawns, line.val, io).file /\ last_io' = io
    /\ k' = k + 1
    /\ UNCHANGED <<pc, argv, monster_ids, idx, json_data, mobdb, skills,
                   monsters_not_found, resets, resp, call>>
    /\ UNCHANGED libVars

\* main.py 155-157 and the end of the loop: generate_spawn returns, or raises
\* on a source record that is no dict
GenerateSpawnEnd ==
    /\ pc = "spawn"
    /\ json_data.t = "dict" => k > Len(Entries(json_data, "spawn"))
    /\ pc' = IF json_data.t = "dict" THEN "skill" ELSE "crashed"
    /\ k' = 1
    /\ last_io' = "none"
    /\ UNCHANGED <<argv, monster_ids, idx, json_data, mobdb, spawns, skills,
                   monsters_not_found, resets, resp, call>>
    /\ UNCHANGED libVars

\* main.py 189-198: one pass of the loop of generate_skills; the name is
\* normalised before the loop, outside the try block
GenerateSkillEntry(io) ==
    /\ pc = "skill"
    /\ k <= Len(Entries(json_data, "skill"))
    /\ LET name == normalize_dbname(py_get_default(json_data.v, "dbname", JStr("")))
           line == skill_build_line(monster_ids[idx], name.val,
                                    Entries(json_data, "skill")[k])
       IN  IF name.exc # "none"
           THEN io = "ok" /\ pc' = "crashed" /\ last_io' = "none" /\ UNCHANGED skills
           ELSE IF line.exc # "none"
           THEN io = "ok" /\ last_io' = "none" /\ UNCHANGED <<pc, skills>>
           ELSE /\ skills' = append_line(skills, line.val, io).file
                /\ last_io' = io
                /\ UNCHANGED pc
    /\ k' = k + 1
    /\ UNCHANGED <<argv, monster_ids, idx, json_data, mobdb, spawns,
                   monsters_not_found, resets, resp, call>>
    /\ UNCHANGED libVars

\* main.py 183-185 and the end of the loop: on to the next identifier
GenerateSkillsEnd ==
    /\ pc = "skill"
    /\ k > Len(Entries(json_data, "skill"))
    /\ pc' = "loop"
    /\ idx' = idx + 1
    /\ k' = 1
    /\ last_io' = "none"
    /\ UNCHANGED <<argv, monster_ids, json_data, mobdb, spawns, skills,
                   monsters_not_found, resets, resp, call>>
    /\ UNCHANGED libVars

\* main.py 260-262: the summary after the last identifier
Finish ==
    /\ pc = "loop"
    /\ idx > Len(monster_ids)
    /\ pc' = "done"
    /\ last_io' = "none"
    /\ UNCHANGED <<argv, monster_ids, idx, k, json_data, mobdb, spawns, skills,
                   monsters_not_found, resets, resp, call>>
    /\ UNCHANGED libVars

Next ==
    \/ ValidateArgs
    \/ \E io \in {"ok", "remove_fail", "open_fail", "write_fail"} : ResetMobDb(io)
    \/ \E io \in {"ok", "mkdir_fail", "remove_fail", "open_fail"} : ResetSpawns(io)
    \/ \E io \in {"ok", "mkdir_fail", "remove_fail", "open_fail"} : ResetSkills(io)
    \/ Fetch
    \/ \E io \in {"ok", "load_fail", "open_fail", "write_fail"} : GenerateMonster(io)
    \/ \E io \in {"ok", "mkdir_fail", "open_fail"} : GenerateSpawnEntry(io)
    \/ GenerateSpawnEnd
    \/ \E io \in {"ok", "mkdir_fail", "open_fail"} : GenerateSkillEntry(io)
    \/ GenerateSkillsEnd
    \/ Finish

Spec == Init /\ [][Next]_vars

(***************************************************************************)
(* Views used by the properties of the batch run.                          *)
(***************************************************************************)
\* the source record carries no usable identifier: absent or null, a string
\* that is no number, or zero
InvalidSourceId(json) ==
    /\ json.t = "dict"
    /\ LET v == py_get(json.v, "id")
       IN  \/ v.t = "null"
           \/ v.t = "str" /\ strip(v.v) \notin DOMAIN IntLiterals
           \/ v.t = "str" /\ strip(v.v) \in DOMAIN IntLiterals /\ IntLiterals[strip(v.v)] = 0
           \/ v.t = "int" /\ v.v = 0

\* the source record carries an integer identifier other than zero
ValidSourceId(json) ==
    /\ json.t = "dict"
    /\ LET v == py_get(json.v, "id")
       IN  \/ v.t = "int" /\ v.v # 0
           \/ v.t = "str" /\ strip(v.v) \in DOMAIN IntLiterals /\ IntLiterals[strip(v.v)] # 0

\* the identifier list given to main() names no identifier
EmptyIdList(pieces) == \A i \in DOMAIN pieces : strip(pieces[i]) = ""
\* the identifier list holds an element that is no integer
HasNonInteger(pieces) ==
    \E i \in DOMAIN pieces :
        strip(pieces[i]) # "" /\ strip(pieces[i]) \notin DOMAIN IntLiterals

\* main() is past the resets, in the loop over the identifiers or after it
InLoop == pc \in {"loop", "monster", "spawn", "skill", "done"}
\* the lines of a text file
LinesOf(file) == IF file.t = "nofile" THEN <<>> ELSE file.lines
\* the identifiers requested in this run
Requested == {monster_ids[i] : i \in DOMAIN monster_ids}

(***************************************************************************)
(* C4: while a fetched source record with a non-numeric, absent or zero    *)
(* identifier is processed, buildMonsterRecord returns empty, no upsert is *)
(* performed and the monster document on disk does not change.             *)
(***************************************************************************)
C4_InvalidIdNoMutation ==
    [][(pc \in {"monster", "spawn", "skill"} /\ InvalidSourceId(json_data)) =>
          /\ mount_monster_yaml(json_data) = Return(EmptyYml)
          /\ call' = call
          /\ mobdb' = mobdb]_vars

\* a record with an invalid identifier was processed after one was emitted
C4_Witness ==
    /\ pc = "spawn"
    /\ InvalidSourceId(json_data)
    /\ IsDocument(mobdb) /\ Len(BodyOf(mobdb)) >= 1

(***************************************************************************)
(* C5: in every state of a batch run, every record of the monster document *)
(* has an Id that is a positive integer.                                   *)
(***************************************************************************)
C5_PositiveIds ==
    IsDocument(mobdb) => \A i \in DOMAIN BodyOf(mobdb) : BodyOf(mobdb)[i].Id > 0

(***************************************************************************)
(* C6: a fetch that fails adds its identifier exactly once to the          *)
(* not-found list, modifies none of the three outputs, and the batch goes  *)
(* on with the next identifier.                                            *)
(***************************************************************************)
C6_FetchFailure ==
    [][(pc = "loop" /\ idx <= Len(monster_ids) /\ resp' \in FetchFailures) =>
          /\ monsters_not_found' = Append(monsters_not_found, monster_ids[idx])
          /\ UNCHANGED <<mobdb, spawns, skills>>
          /\ pc' = "loop"
          /\ idx' = idx + 1]_vars

\* the first fetch returned invalid JSON and a second identifier remains
C6_Witness ==
    /\ pc = "loop" /\ resp = "InvalidJSON"
    /\ idx = 2 /\ Len(monster_ids) = 2
    /\ monsters_not_found = <<monster_ids[1]>>

(***************************************************************************)
(* C7: given an empty identifier list or a list with a non-integer         *)
(* element, main() exits with status 1 before any output is reset or       *)
(* written, and the outputs stay as they were.                             *)
(***************************************************************************)
C7_BadArgsExit ==
    [][/\ (pc = "start" /\ argv.n = 1
             /\ (EmptyIdList(argv.pieces) \/ HasNonInteger(argv.pieces))) =>
             (pc' = "exit1" /\ UNCHANGED <<mobdb, spawns, skills, resets>>)
       /\ pc = "exit1" => (pc' = "exit1" /\ UNCHANGED <<mobdb, spawns, skills, resets>>)]_vars

\* the run ended on a non-integer element with the old outputs in place
C7_Witness ==
    /\ pc = "exit1"
    /\ argv.n = 1 /\ HasNonInteger(argv.pieces) /\ ~EmptyIdList(argv.pieces)
    /\ mobdb = StaleDoc /\ spawns = StaleSpawns /\ skills = StaleSkills
    /\ resets = [mob |-> 0, spawn |-> 0, skill |-> 0]

(***************************************************************************)
(* C8: each output is reset at most once in a run; once main() is in its   *)
(* loop each has been reset exactly once, and before the first fetch the   *)
(* document is header plus empty collection and both text files are empty; *)
(* from then on the outputs hold only what this run wrote.                 *)
(***************************************************************************)
C8_ResetOnce ==
    /\ resets.mob <= 1 /\ resets.spawn <= 1 /\ resets.skill <= 1
    /\ (InLoop \/ resp # "none") => resets = [mob |-> 1, spawn |-> 1, skill |-> 1]
    /\ (pc = "loop" /\ idx = 1 /\ resp = "none") =>
          /\ mobdb = YamlFile(EmptyExport)
          /\ spawns = TextFile(<<>>)
          /\ skills = TextFile(<<>>)
    /\ InLoop =>
          /\ IsDocument(mobdb)
          /\ \A i \in DOMAIN BodyOf(mobdb) : BodyOf(mobdb)[i].Id # StaleId
          /\ \A i \in DOMAIN LinesOf(spawns) : LinesOf(spawns)[i].mobid \in Requested
          /\ \A i \in DOMAIN LinesOf(skills) : LinesOf(skills)[i].mob_id \in Requested

\* a run over two identifiers that ended with all three outputs written
C8_Witness ==
    /\ pc = "done" /\ Len(monster_ids) = 2
    /\ IsDocument(mobdb) /\ Len(BodyOf(mobdb)) = 2
    /\ Len(LinesOf(spawns)) >= 1 /\ Len(LinesOf(skills)) >= 1

(***************************************************************************)
(* C9: a failed output write (document save, spawn or skill append,        *)
(* directory creation) ends the run at once: the step in which the file    *)
(* system fails leaves main() with an exception.                           *)
(***************************************************************************)
C9_WriteFailureFatal ==
    [][last_io' \notin {"none", "ok"} => pc' = "crashed"]_vars

(***************************************************************************)
(* C10: for every fetched source record whose identifier is valid,         *)
(* buildMonsterRecord returns a record without raising.                    *)
(***************************************************************************)
C10_BuildNeverRaises ==
    (pc = "monster" /\ ValidSourceId(json_data)) =>
        /\ mount_monster_yaml(json_data).exc = "none"
        /\ mount_monster_yaml(json_data).val # EmptyYml

(***************************************************************************)
(* SpecLib: the library functions applied to values a source record, a     *)
(* drop list, a skill entry or a spawn entry can hold.                     *)
(***************************************************************************)
MaxDrops == 2

\* the variables of a batch run, in a process that runs none
BatchIdle ==
    /\ argv = [n |-> 0, pieces |-> <<>>]
    /\ monster_ids = <<>>
    /\ idx = 1
    /\ k = 1
    /\ json_data = None
    /\ spawns = NoFile
    /\ skills = NoFile
    /\ monsters_not_found = <<>>
    /\ resets = [mob |-> 0, spawn |-> 0, skill |-> 0]
    /\ resp = "none"
    /\ last_io = "none"

\* drop entries of a source record: found in the first file, found in the
\* second only, numeric string, in no file, non-numeric, absent, null, zero
DropEntries ==
    {DictOf([itemId |-> JInt(501), chance |-> JInt(1500)]),
     DictOf([itemId |-> JInt(7321), stealProtected |-> JBool(TRUE)]),
     DictOf([itemId |-> JStr("501"), chance |-> JStr("abc")]),
     DictOf([itemId |-> JInt(3)]),
     DictOf([itemId |-> JStr("abc")]),
     DictOf([chance |-> JInt(1500)]),
     DictOf([itemId |-> None]),
     DictOf([itemId |-> JInt(0)])}

\* the values of the "drops" / "mvpdrops" key of a source record
DropLists ==
    {None, JList(<<>>)}
    \cup { JList(l) : l \in UNION { [1..n -> DropEntries] : n \in 1..MaxDrops } }

\* source records with a valid identifier that differ in the MVP flag and in
\* the two drop lists
MvpFlags == {Absent, None, JInt(0), JInt(1), JStr("1"), JInt(2)}
DropSamples ==
    {Absent, None, JList(<<>>),
     JList(<<DictOf([itemId |-> JInt(7321)])>>),
     JList(<<DictOf([itemId |-> JInt(3)])>>),
     JList(<<DictOf([itemId |-> JStr("abc")]), DictOf([itemId |-> JInt(501)])>>)}
DropsJson(mvp, mvpdrops, drops) ==
    DictOf([id |-> JInt(1002), dbname |-> JStr("HOLY_FRUS"),
            stats |-> DictOf([mvp |-> mvp]), mvpdrops |-> mvpdrops, drops |-> drops])

LibInit ==
    /\ pc = "lib"
    /\ mobdb = NoFile
    /\ call = NoCall
    /\ BatchIdle
    /\ LibIdle

\* one function is applied, once; the call changes nothing but its record
LibFrame ==
    /\ pc = "lib"
    /\ fn = "none"
    /\ UNCHANGED <<batchVars, mobdb, call, upserted, item_cache, catalog, reads>>

ApplyGetDrops(items) ==
    /\ LibFrame
    /\ fn' = "get_drops"
    /\ arg' = <<items>>
    /\ out' = get_drops(items)

ApplyMountMonsterYaml(json) ==
    /\ LibFrame
    /\ fn' = "mount_monster_yaml"
    /\ arg' = <<json>>
    /\ out' = mount_monster_yaml(json)

(***************************************************************************)
(* Views used by the properties of the drop resolver.                      *)
(***************************************************************************)
\* the bodies of the item database files, in configured order
CatalogBodies == [n \in DOMAIN ItemDbFiles |-> ItemDbFiles[n].node.v["Body"].v]
\* the item identifiers some file holds
CatalogIds == UNION { {CatalogBodies[n][i].Id : i \in DOMAIN CatalogBodies[n]} :
                         n \in DOMAIN CatalogBodies }
\* the display name of id in the first file, in configured order, that holds it
FirstName(id) ==
    LET n == CHOOSE m \in DOMAIN CatalogBodies :
                /\ \E i \in DOMAIN CatalogBodies[m] : CatalogBodies[m][i].Id = id
                /\ \A l \in 1..(m - 1) :
                      \A i \in DOMAIN CatalogBodies[l] : CatalogBodies[l][i].Id # id
        i == CHOOSE j \in DOMAIN CatalogBodies[n] :
                /\ CatalogBodies[n][j].Id = id
                /\ \A l \in 1..(j - 1) : CatalogBodies[n][l].Id # id
    IN  CatalogBodies[n][i].AegisName
\* the entry's item identifier is numeric
NumericItemId(item) ==
    LET v == py_get(item.v, "itemId")
    IN  \/ v.t = "int"
        \/ v.t = "str" /\ strip(v.v) \in DOMAIN IntLiterals
\* the entry's item identifier is numeric and some file holds it
Resolves(item) ==
    /\ NumericItemId(item)
    /\ py_int(py_get(item.v, "itemId")).val \in CatalogIds
\* the entries of a drop list that resolve, in their order
Resolving(items) == IF items.t = "list" THEN SelectSeq(items.v, Resolves) ELSE <<>>


(***************************************************************************)
(* SpecLib, continued: skill entries, spawn entries, numbers and codes.    *)
(***************************************************************************)
MaxNum == 2
MaxCode == 11

\* skill entries of a source record
SkillEntries ==
    { DictOf([idx |-> JInt(39196), skillId |-> id, status |-> JStr("RUSH_ST"),
              level |-> JInt(3), interruptable |-> i, condition |-> c,
              conditionValue |-> v, sendType |-> st, sendValue |-> JInt(19)]) :
        id \in {JInt(26), JStr("x"), Absent},
        i \in {Absent, None, JBool(FALSE), JBool(TRUE)},
        c \in {Absent, None, JStr(""), JStr("IF_HP"), JStr("if_slavenum"),
               JStr("IF_RUDEATTACK"), JStr("IF_UNKNOWN"), JInt(1)},
        v \in {Absent, JStr(""), JStr("19"), JInt(19), JStr("19,20")},
        st \in {Absent, JStr("send_emoticon"), JStr("SEND_CHAT")} }

\* spawn entries of a source record
SpawnEntries ==
    { DictOf([mapname |-> m, amount |-> a, respawnTime |-> d]) :
        m \in {Absent, None, JStr(" abbey01 ")},
        a \in {Absent, None, JInt(21), JStr("21"), JStr("abc")},
        d \in {Absent, None, JInt(3), JStr("abc")} }

\* values a numeric field of a source record can hold
Numbers ==
    {None, JStr("abc"), JStr(""), JStr("-3"), JStr("21"), JList(<<>>)}
    \cup { JInt(n) : n \in (-MaxNum)..MaxNum }

\* codes given to the enumeration mappers
Codes == (-MaxCode)..MaxCode

ApplySkillBuildLine(skill) ==
    /\ LibFrame
    /\ fn' = "skill_build_line"
    /\ arg' = <<skill>>
    /\ out' = skill_build_line(1002, "Holy Frus", skill)

ApplySpawnLine(spawn) ==
    /\ LibFrame
    /\ fn' = "spawn_line"
    /\ arg' = <<spawn>>
    /\ out' = spawn_line(1002, DictOf([dbname |-> JStr("HOLY_FRUS")]).v, spawn)

ApplyValueFallback(value, fallback) ==
    /\ LibFrame
    /\ fn' = "value_fallback"
    /\ arg' = <<value, fallback>>
    /\ out' = Return(value_fallback(value, fallback))

ApplyGetClassName(code) ==
    /\ LibFrame
    /\ fn' = "get_class_name"
    /\ arg' = <<code>>
    /\ out' = Return(get_class_name(code))

ApplyGetElementName(code) ==
    /\ LibFrame
    /\ fn' = "get_element_name"
    /\ arg' = <<code>>
    /\ out' = Return(get_element_name(code))

ApplyGetSizeName(code) ==
    /\ LibFrame
    /\ fn' = "get_size_name"
    /\ arg' = <<code>>
    /\ out' = Return(get_size_name(code))

ApplyGetRaceName(code) ==
    /\ LibFrame
    /\ fn' = "get_race_name"
    /\ arg' = <<code>>
    /\ out' = Return(get_race_name(code))

LibNext ==
    \/ \E items \in DropLists : ApplyGetDrops(items)
    \/ \E mvp \in MvpFlags, m \in DropSamples, d \in DropSamples :
          ApplyMountMonsterYaml(DropsJson(mvp, m, d))
    \/ \E skill \in SkillEntries : ApplySkillBuildLine(skill)
    \/ \E spawn \in SpawnEntries : ApplySpawnLine(spawn)
    \/ \E value \in Numbers, fallback \in Numbers : ApplyValueFallback(value, fallback)
    \/ \E code \in Codes : ApplyGetClassName(code)
    \/ \E code \in Codes : ApplyGetElementName(code)
    \/ \E code \in Codes : ApplyGetSizeName(code)
    \/ \E code \in Codes : ApplyGetRaceName(code)

SpecLib == LibInit /\ [][LibNext]_vars

(***************************************************************************)
(* C11: a built monster record has the MvpDrops key exactly when stats.mvp *)
(* is 1 and an MVP-drop entry resolves, and the Drops key exactly when an  *)
(* ordinary drop entry resolves; neither key ever holds an empty list.     *)
(***************************************************************************)
\* stats.mvp of the source record is 1 (as a number or as a numeral)
MvpFlagSet(json) ==
    LET mvp == py_get(py_get(json.v, "stats").v, "mvp")
    IN  mvp = JInt(1) \/ mvp = JStr("1")
\* the drop list of the source record under key
DropListOf(json, key) == py_get_default(json.v, key, JList(<<>>))

C11_DropKeys ==
    (fn = "mount_monster_yaml" /\ out.exc = "none" /\ out.val # EmptyYml) =>
        /\ "MvpDrops" \in DOMAIN out.val <=>
              (MvpFlagSet(arg[1]) /\ Resolving(DropListOf(arg[1], "mvpdrops")) # <<>>)
        /\ "Drops" \in DOMAIN out.val <=> Resolving(DropListOf(arg[1], "drops")) # <<>>
        /\ "MvpDrops" \in DOMAIN out.val => out.val["MvpDrops"] # <<>>
        /\ "Drops" \in DOMAIN out.val => out.val["Drops"] # <<>>

\* an MVP record whose only MVP-drop entry is in no file, with a resolved drop
C11_Witness ==
    /\ fn = "mount_monster_yaml" /\ out.exc = "none" /\ out.val # EmptyYml
    /\ MvpFlagSet(arg[1])
    /\ DropListOf(arg[1], "mvpdrops") = JList(<<DictOf([itemId |-> JInt(3)])>>)
    /\ "MvpDrops" \notin DOMAIN out.val
    /\ "Drops" \in DOMAIN out.val

(***************************************************************************)
(* C12: resolveDrops returns, in input order, one DropRecord for each      *)
(* entry whose item identifier is numeric and held by some catalog file,   *)
(* named from the first file holding it; the other entries (identifier     *)
(* absent, non-numeric or in no file) yield nothing and stop nothing.      *)
(***************************************************************************)
C12_ResolvedSubsequence ==
    (fn = "get_drops" /\ arg[1].t = "list") =>
        /\ out.exc = "none"
        /\ Len(out.val) = Len(Resolving(arg[1]))
        /\ \A i \in DOMAIN out.val :
              out.val[i].Item =
                  FirstName(py_int(py_get(Resolving(arg[1])[i].v, "itemId")).val)

\* a non-numeric entry followed by one that resolves
C12_Witness ==
    /\ fn = "get_drops" /\ arg[1].t = "list" /\ Len(arg[1].v) = 2
    /\ ~NumericItemId(arg[1].v[1])
    /\ Resolves(arg[1].v[2])
    /\ out.exc = "none" /\ Len(out.val) = 1

(***************************************************************************)
(* C13: in every skill line build_line produces, the condition type is     *)
(* empty or one of the literals of the engine whitelist, and a line whose  *)
(* condition type is empty (the condition was unmapped, or was cleared by  *)
(* the whitelist check) has an empty condition value too.                  *)
(***************************************************************************)
C13_ConditionWhitelist ==
    (fn = "skill_build_line" /\ out.exc = "none") =>
        /\ out.val.cond_type = "" \/ out.val.cond_type \in RATHENA_CONDITION_WHITELIST
        /\ out.val.cond_type = "" => out.val.cond_value = ""

\* an unmapped condition that came with a value: both fields of the line empty
C13_Witness ==
    /\ fn = "skill_build_line" /\ out.exc = "none"
    /\ py_get(arg[1].v, "condition") = JStr("IF_UNKNOWN")
    /\ py_get(arg[1].v, "conditionValue") = JStr("19")
    /\ out.val.cond_type = "" /\ out.val.cond_value = ""

(***************************************************************************)
(* C14: for a fetched record, each entry of its skill list yields exactly  *)
(* one line appended to the skill file, and the line has exactly 19        *)
(* comma-separated fields.                                                 *)
(***************************************************************************)
\* how many commas the text of a field holds
Commas(text) == IF text = "19,20" THEN 1 ELSE 0
\* how many fields line.split(",") gives for a built skill line: the 19 joined
\* by "," in build_line, and one more for every comma inside a field
FieldCount(line) ==
    19 + Commas(line.state[1]) + Commas(line.state[2]) + Commas(line.cond_value)
       + Commas(line.val1) + Commas(line.val2) + Commas(line.emotion)

\* a pass of the loop of generate_skills in which the file system does not
\* fail appends one line of 19 fields
C14_OneLinePerSkill ==
    [][(pc = "skill" /\ k <= Len(Entries(json_data, "skill")) /\ last_io' \in {"none", "ok"})
          => /\ Len(LinesOf(skills')) = Len(LinesOf(skills)) + 1
             /\ FieldCount(LinesOf(skills')[Len(LinesOf(skills'))]) = 19]_vars

(***************************************************************************)
(* C15: the spawn line emitted for a spawn entry carries the entry's map,  *)
(* coordinates 0,0, the display name and the identifier; its amount is the *)
(* entry's amount, or 1 when the entry has none or one that is no number;  *)
(* its delay is the entry's respawn time, or 5000 in the same cases.       *)
(***************************************************************************)
\* the number a field of a spawn entry holds, or the default when the field is
\* absent or holds no number
FieldOr(entry, key, default) ==
    IF key \in DOMAIN entry.v /\ py_int(entry.v[key]).exc = "none"
    THEN py_int(entry.v[key]).val ELSE default

C15_SpawnLineDefaults ==
    fn = "spawn_line" =>
        /\ out.exc = "none"
        /\ out.val.x = 0 /\ out.val.y = 0
        /\ out.val.mobname = "Holy Frus" /\ out.val.mobid = 1002
        /\ out.val.amount = FieldOr(arg[1], "amount", 1)
        /\ out.val.delay = FieldOr(arg[1], "respawnTime", 5000)

(***************************************************************************)
(* C16: value_fallback(v, f) is |v| when v parses to a non-zero integer,   *)
(* otherwise |f| when f parses to a non-zero integer, otherwise 350; the   *)
(* result is always a strictly positive integer.                           *)
(***************************************************************************)
\* the integer a value parses to, 0 when it parses to none
ParsedOrZero(value) == IF py_int(value).exc = "none" THEN py_int(value).val ELSE 0

C16_ValueFallback ==
    fn = "value_fallback" =>
        /\ out.exc = "none"
        /\ out.val \in Nat /\ out.val > 0
        /\ out.val = IF ParsedOrZero(arg[1]) # 0 THEN Abs(ParsedOrZero(arg[1]))
                     ELSE IF ParsedOrZero(arg[2]) # 0 THEN Abs(ParsedOrZero(arg[2]))
                     ELSE 350

\* a value that is no number with a negative fallback
C16_Witness ==
    /\ fn = "value_fallback"
    /\ arg = <<JStr("abc"), JInt(-2)>>
    /\ out = Return(2)

(***************************************************************************)
(* C17: for an integer code outside its table (negative, or at least the   *)
(* table's length: 6 classes, 10 elements, 3 sizes, 10 races) each of the  *)
(* four mappers returns its default - Normal, Neutral, Medium, Formless -  *)
(* and does not raise.                                                     *)
(***************************************************************************)
OutOfRange(code, length) == code < 0 \/ code >= length

C17_MapperDefaults ==
    /\ (fn = "get_class_name" /\ OutOfRange(arg[1], 6)) => out = Return("Normal")
    /\ (fn = "get_element_name" /\ OutOfRange(arg[1], 10)) => out = Return("Neutral")
    /\ (fn = "get_size_name" /\ OutOfRange(arg[1], 3)) => out = Return("Medium")
    /\ (fn = "get_race_name" /\ OutOfRange(arg[1], 10)) => out = Return("Formless")

\* the size mapper on -1, which indexing from the end would map to Large
C17_Witness ==
    /\ fn = "get_size_name"
    /\ arg = <<-1>>
    /\ out = Return("Medium")

(***************************************************************************)
(* C18: loadDocument(path) never fails on what the path holds - missing,   *)
(* unparseable, empty, not a mapping, or with a missing or null Body - and *)
(* yields a document with a record collection, so that an upsertRecord     *)
(* that meets no file-system error returns.                                *)
(***************************************************************************)
C18_LoadNeverFails ==
    [][(call'.op = "upsert" /\ call'.exc # "OSError") =>
          /\ Loaded(mobdb).exc = "none"
          /\ Loaded(mobdb).val.v["Body"].t = "list"
          /\ call'.exc = "none"]_vars

(***************************************************************************)
(* SpecFresh: init_export_yaml(path), then upsert_monster calls on the     *)
(* same path.  An exception that leaves a call ends the process: no caller *)
(* of the two functions catches it.                                        *)
(***************************************************************************)
\* upsert_monster calls in one process
MaxUpserts == 3

\* what the path can hold before init_export_yaml: nothing, text that is not
\* YAML, or a document of an earlier run
FreshStartFiles ==
    {NoFile, YamlFile(Invalid),
     YamlFile(JDict([Header |-> HeaderOther,
                     Body |-> JList(<<[Id |-> 1, Level |-> 250]>>)]))}

FreshInit ==
    /\ pc = "fresh_start"
    /\ mobdb \in FreshStartFiles
    /\ call = NoCall
    /\ BatchIdle
    /\ LibIdle

FreshInitExport(io) ==
    /\ pc = "fresh_start"
    /\ LET r == init_export_yaml(mobdb, io)
       IN  /\ mobdb' = r.file
           /\ call' = [op |-> "init", entry |-> NoCall.entry, ret |-> FALSE, exc |-> r.exc]
           /\ pc' = IF r.exc = "none" THEN "fresh" ELSE "crashed"
    /\ UNCHANGED <<argv, monster_ids, idx, k, json_data, spawns, skills,
                   monsters_not_found, resets, resp, last_io>>
    /\ UNCHANGED libVars

FreshUpsert(entry, io) ==
    /\ pc = "fresh"
    /\ Len(upserted) < MaxUpserts
    /\ LET r == upsert_monster(entry, mobdb, io)
       IN  /\ mobdb' = r.file
           /\ call' = [op |-> "upsert", entry |-> entry, ret |-> r.ret, exc |-> r.exc]
           /\ upserted' = IF r.exc = "none" THEN Append(upserted, entry) ELSE upserted
           /\ pc' = IF r.exc = "none" THEN "fresh" ELSE "crashed"
    /\ UNCHANGED <<argv, monster_ids, idx, k, json_data, spawns, skills,
                   monsters_not_found, resets, resp, last_io>>
    /\ UNCHANGED <<fn, arg, out, item_cache, catalog, reads>>

FreshNext ==
    \/ \E io \in {"ok", "remove_fail", "open_fail", "write_fail"} : FreshInitExport(io)
    \/ \E entry \in StoreEntries, io \in {"ok", "load_fail", "open_fail", "write_fail"} :
          FreshUpsert(entry, io)

SpecFresh == FreshInit /\ [][FreshNext]_vars

(***************************************************************************)
(* C19: after initDocument and any sequence of upsertRecord calls that     *)
(* returned, the record collection has pairwise distinct Ids, as many      *)
(* records as distinct Ids were upserted, in the order in which each Id    *)
(* was first upserted, each record being the latest upserted for its Id,   *)
(* and the Header is {Type: MOB_DB, Version: 2}.                           *)
(***************************************************************************)
\* the identifiers of a sequence of entries, each once, in order of first
\* occurrence
RECURSIVE FirstOccurrences(_)
FirstOccurrences(entries) ==
    IF entries = <<>> THEN <<>>
    ELSE LET front == FirstOccurrences(SubSeq(entries, 1, Len(entries) - 1))
             id == entries[Len(entries)].Id
         IN  IF \E i \in DOMAIN front : front[i] = id THEN front ELSE Append(front, id)
\* the entry upserted last for an identifier
LatestFor(entries, id) ==
    entries[CHOOSE i \in DOMAIN entries :
                /\ entries[i].Id = id
                /\ \A j \in DOMAIN entries : entries[j].Id = id => j <= i]

C19_FreshDocument ==
    pc = "fresh" =>
        /\ IsDocument(mobdb)
        /\ \A i, j \in DOMAIN BodyOf(mobdb) :
              i # j => BodyOf(mobdb)[i].Id # BodyOf(mobdb)[j].Id
        /\ Len(BodyOf(mobdb)) = Cardinality({upserted[i].Id : i \in DOMAIN upserted})
        /\ [i \in DOMAIN BodyOf(mobdb) |-> BodyOf(mobdb)[i].Id] = FirstOccurrences(upserted)
        /\ \A i \in DOMAIN BodyOf(mobdb) :
              BodyOf(mobdb)[i] = LatestFor(upserted, BodyOf(mobdb)[i].Id)
        /\ HeaderOf(mobdb) = HeaderDefault

\* three upserts: the first Id upserted again with another value after a
\* second Id
C19_Witness ==
    /\ pc = "fresh"
    /\ Len(upserted) = 3
    /\ upserted[1].Id = upserted[3].Id /\ upserted[1] # upserted[3]
    /\ upserted[2].Id # upserted[1].Id
    /\ BodyOf(mobdb) = <<upserted[3], upserted[2]>>

(***************************************************************************)
(* SpecCatalog: the item lookups of one process.  Between two lookups the  *)
(* files of config.yaml_paths can be rewritten or removed by others.  An   *)
(* exception that leaves search_item ends the process: get_drops and its   *)
(* callers do not catch it.                                                *)
(***************************************************************************)
\* reads of one path after which the process is followed no further
MaxReads == 2

\* the paths of config.yaml_paths, in configured order
CatalogPaths == DOMAIN ItemDbFiles
\* what a path of the item database can hold: nothing, text that is not YAML,
\* an empty file, a document with a null Body, or one of the shipped documents
CatalogFiles ==
    {NoItemFile, ItemFile(InvalidYaml), ItemFile(None), ItemFile(JDict([Body |-> None]))}
    \cup { ItemDbFiles[n] : n \in CatalogPaths }
\* the identifiers looked up
LookupIds == {3, 501, 7321}

CatalogInit ==
    /\ pc = "catalog"
    /\ mobdb = NoFile
    /\ call = NoCall
    /\ BatchIdle
    /\ upserted = <<>>
    /\ fn = "none"
    /\ arg = <<>>
    /\ out = Return(None)
    /\ item_cache = <<>>
    /\ catalog \in [CatalogPaths -> CatalogFiles]
    /\ reads = [n \in CatalogPaths |-> 0]

\* search_item(item_id)
CatalogLookup(item_id, io) ==
    /\ pc = "catalog"
    /\ \A n \in CatalogPaths : reads[n] < MaxReads
    /\ fn' = "search_item"
    /\ arg' = <<item_id>>
    /\ item_cache' = search_item_cached(item_id, item_cache, catalog, io).cache
    /\ reads' = [n \in CatalogPaths |->
                    IF n \in search_item_cached(item_id, item_cache, catalog, io).read
                    THEN reads[n] + 1 ELSE reads[n]]
    /\ out' = IF search_item_cached(item_id, item_cache, catalog, io).exc = "none"
              THEN Return(search_item_cached(item_id, item_cache, catalog, io).result)
              ELSE Raise(search_item_cached(item_id, item_cache, catalog, io).exc)
    /\ pc' = IF search_item_cached(item_id, item_cache, catalog, io).exc = "none"
             THEN "catalog" ELSE "crashed"
    /\ UNCHANGED <<argv, monster_ids, idx, k, json_data, spawns, skills,
                   monsters_not_found, resets, resp, last_io>>
    /\ UNCHANGED <<mobdb, call, upserted, catalog>>

\* a file of the item database is rewritten or removed while the process runs
CatalogChange(n, file) ==
    /\ pc = "catalog"
    /\ catalog[n] # file
    /\ catalog' = [catalog EXCEPT ![n] = file]
    /\ UNCHANGED <<batchVars, mobdb, call, upserted, fn, arg, out, item_cache, reads>>

CatalogNext ==
    \/ \E item_id \in LookupIds, io \in {"ok", "open_fail"} : CatalogLookup(item_id, io)
    \/ \E n \in CatalogPaths, file \in CatalogFiles : CatalogChange(n, file)

SpecCatalog == CatalogInit /\ [][CatalogNext]_vars

(***************************************************************************)
(* C20: over the item lookups of one process, each catalog file is read    *)
(* from disk at most once, on the first lookup that reaches it and whether *)
(* or not the read gives a document; what is cached for it never changes   *)
(* afterwards; and each lookup returns the entry of the first file, in     *)
(* configured order, whose cached content holds the identifier.            *)
(***************************************************************************)
\* the cached content of a path holds an entry with the identifier
Holds(data, id) ==
    /\ data.t = "dict"
    /\ "Body" \in DOMAIN data.v
    /\ data.v["Body"].t = "list"
    /\ \E i \in DOMAIN data.v["Body"].v : data.v["Body"].v[i].Id = id
\* the first entry with the identifier in a content that holds it
EntryIn(data, id) ==
    LET body == data.v["Body"].v
    IN  JDict(body[CHOOSE i \in DOMAIN body :
                      /\ body[i].Id = id
                      /\ \A j \in DOMAIN body : body[j].Id = id => i <= j])
\* the cached paths whose content holds the identifier
Holders(cache, id) == {n \in DOMAIN cache : Holds(cache[n], id)}

C20_CacheOnce ==
    [][/\ \A n \in CatalogPaths : reads'[n] <= 1
       /\ \A n \in DOMAIN item_cache :
             n \in DOMAIN item_cache' /\ item_cache'[n] = item_cache[n]
       /\ \A n \in DOMAIN item_cache' \ DOMAIN item_cache :
             /\ reads'[n] = reads[n] + 1
             /\ item_cache'[n] = load_yaml(catalog[n], "ok").val
       /\ (fn' = "search_item" /\ out'.exc = "none") =>
             IF Holders(item_cache', arg'[1]) # {}
             THEN \E n \in Holders(item_cache', arg'[1]) :
                     /\ \A m \in Holders(item_cache', arg'[1]) : n <= m
                     /\ 1..n \subseteq DOMAIN item_cache'
                     /\ out'.val = EntryIn(item_cache'[n], arg'[1])
             ELSE /\ out'.val = None
                  /\ DOMAIN item_cache' = CatalogPaths]_vars

\* the entry of the first file, read once and cached, is the answer of the last
\* lookup while the file itself is gone from the disk
C20_Witness ==
    /\ fn = "search_item" /\ arg = <<501>>
    /\ out = Return(JDict([Id |-> 501, AegisName |-> "Red_Potion"]))
    /\ catalog[1] = NoItemFile
    /\ reads[1] = 1
    /\ 1 \in DOMAIN item_cache

(***************************************************************************)
(* C21: the class mapper maps source class code 0 to Normal, 1 to Boss, 2  *)
(* to Boss, 3 to Guardian, 4 to Normal and 5 to Guardian, and every other  *)
(* code to Normal.                                                         *)
(***************************************************************************)
\* the class name stated for each source class code
StatedClassName(code) ==
    CASE code = 0 -> "Normal"
      [] code = 1 -> "Boss"
      [] code = 2 -> "Boss"
      [] code = 3 -> "Guardian"
      [] code = 4 -> "Normal"
      [] code = 5 -> "Guardian"
      [] OTHER -> "Normal"

C21_ClassTable ==
    fn = "get_class_name" => out = Return(StatedClassName(arg[1]))

(***************************************************************************)
(* C22: the cancelability field of a skill line is "no" only when the raw  *)
(* interruptable flag is explicitly false; when the flag is absent, null   *)
(* or true the field is "yes".                                             *)
(***************************************************************************)
C22_Cancelable ==
    (fn = "skill_build_line" /\ out.exc = "none") =>
        out.val.cancelable =
            IF "interruptable" \in DOMAIN arg[1].v /\ arg[1].v["interruptable"] = JBool(FALSE)
            THEN "no" ELSE "yes"

(***************************************************************************)
(* C23: the target field of every skill line is "self" or "target", never  *)
(* empty: "self" for a condition whose logical target is self, "target"    *)
(* for one whose logical target is enemy or target, and "target" for an    *)
(* absent, unknown or unmapped condition.                                  *)
(***************************************************************************)
\* the logical target the condition of a skill entry stands for, "" when the
\* entry has no condition or one that is not known
LogicalTargetOf(skill) ==
    LET c == py_get(skill.v, "condition")
    IN  IF c.t = "str" /\ upper(strip(c.v)) \in DOMAIN KNOWN_CONDITIONS
        THEN KNOWN_CONDITIONS[upper(strip(c.v))][2] ELSE ""

C23_TargetNeverEmpty ==
    (fn = "skill_build_line" /\ out.exc = "none") =>
        /\ out.val.rathena_target \in {"self", "target"}
        /\ LogicalTargetOf(arg[1]) = "self" => out.val.rathena_target = "self"
        /\ LogicalTargetOf(arg[1]) \in {"enemy", "target"} => out.val.rathena_target = "target"
        /\ LogicalTargetOf(arg[1]) = "" => out.val.rathena_target = "target"

\* an unknown condition: the target column is "target"
C23_Witness ==
    /\ fn = "skill_build_line" /\ out.exc = "none"
    /\ py_get(arg[1].v, "condition") = JStr("IF_UNKNOWN")
    /\ out.val.rathena_target = "target"

(***************************************************************************)
(* C24: at the end of a batch run, every monster identifier in a line of   *)
(* the spawn file or of the skill file is the Id of a record of the        *)
(* monster document.                                                       *)
(***************************************************************************)
\* the Ids of the records of the monster document
DocumentIds == {BodyOf(mobdb)[i].Id : i \in DOMAIN BodyOf(mobdb)}

C24_OutputsConsistent ==
    pc = "done" =>
        /\ \A i \in DOMAIN LinesOf(spawns) : LinesOf(spawns)[i].mobid \in DocumentIds
        /\ \A i \in DOMAIN LinesOf(skills) : LinesOf(skills)[i].mob_id \in DocumentIds

====
